---- MODULE Spec2Model ----
(***************************************************************************)
(* Model of streamlit_app.py: the Stiff ("mariposa") diagram page.         *)
(*                                                                         *)
(* The page holds a unit selector and an editable table; pressing the      *)
(* button runs normalize(df_edit, unit) and then stiff_plot(dfN, title).   *)
(*                                                                         *)
(* Numbers.  Concentrations are decimal numbers s * m * 10^e (s the sign,  *)
(* m a natural mantissa, e an integer exponent) or NaN.  An equivalent     *)
(* concentration Conc * VAL / MW is kept as the exact rational             *)
(* s * (num / den) * 10^e, with MW in millionths so that den is an         *)
(* integer.  A distance |log10(meq) + 1| is a real number; the model keeps *)
(* its integer part fl and whether it is exactly an integer (ex), which is *)
(* what ceil, comparison with an integer and equality with 0 depend on.    *)
(* Arithmetic is exact (binary floating-point rounding is not modelled).   *)
(***************************************************************************)
EXTENDS Integers, Sequences, FiniteSets, TLC

VARIABLES
    unit,       \* st.radio value: "mg/L" or "meq/L"
    cols,       \* column names of the table handed to normalize
    df_edit,    \* rows of the edited table: [Ion, Group, Conc]
    nNew,       \* how many trailing rows of df_edit were added by the user
    status,     \* "idle" (st.info shown), "plotted" or "error" (exception)
    err,        \* exception type of the last render, "" if none
    dfN,        \* normalize's result shown by st.dataframe
    fig         \* <<figure>> handed to st.plotly_chart, <<>> if none

vars == <<unit, cols, df_edit, nNew, status, err, dfN, fig>>

\* Largest table whose cells the model edits, and longest table drawn as a
\* direct argument of normalize.
MaxRows == 2

(***************************************************************************)
(* Reference tables (lines 10-24) and rank orders (lines 59-60, 71-72)     *)
(***************************************************************************)
\* MW in millionths of a g/mol: 22.989769 -> 22989769.
MW == [Na   |-> 22989769, Ca  |-> 40078000, Mg  |-> 24305000, Fe  |-> 55845000,
       Cl   |-> 35453000, HCO3 |-> 61016000, SO4 |-> 96060000, CO3 |-> 60008000]

VAL == [Na |-> 1, Ca |-> 2, Mg |-> 2, Fe |-> 2,
        Cl |-> 1, HCO3 |-> 1, SO4 |-> 2, CO3 |-> 2]

CAT_ORDER == <<"Na", "Ca", "Mg", "Fe">>
ANI_ORDER == <<"Cl", "HCO3", "SO4", "CO3">>

y_left  == [Na |-> 8, Ca |-> 7, Mg |-> 6, Fe |-> 5]
y_right == [Cl |-> 8, HCO3 |-> 7, SO4 |-> 6, CO3 |-> 5]

(***************************************************************************)
(* Numbers                                                                 *)
(***************************************************************************)
NaN == [k |-> "nan", s |-> 0, m |-> 0, e |-> 0]
Num(s, m, e) == [k |-> "num", s |-> s, m |-> m, e |-> e]

MeqNaN == [k |-> "nan", s |-> 0, num |-> 0, den |-> 1, e |-> 0]

\* FACTOR = VAL/MW (line 24) applied to a concentration (line 45):
\* r["Conc"] * FACTOR.get(r["Ion"], np.nan).  NaN propagates.
ConcTimesFactor(conc, ion) ==
    IF ion \notin DOMAIN MW \/ conc.k = "nan"
    THEN MeqNaN
    ELSE [k |-> "num", s |-> conc.s, num |-> conc.m * VAL[ion],
          den |-> MW[ion], e |-> conc.e + 6]

\* meq > 0 (lines 79, 80, 86); False for NaN.
IsPositive(q) == q.k = "num" /\ q.s > 0 /\ q.num > 0

\* floor(log10(n/d)) for naturals n, d > 0, and the numerator scaled so that
\* the ratio lies in [1, 10).
RECURSIVE FloorLog10Ratio(_, _)
FloorLog10Ratio(n, d) ==
    IF n < d THEN FloorLog10Ratio(n * 10, d) - 1
    ELSE IF n \div 10 >= d THEN FloorLog10Ratio(n, d * 10) + 1
    ELSE 0

RECURSIVE IsPow10Ratio(_, _)
IsPow10Ratio(n, d) ==
    IF n = d THEN TRUE
    ELSE IF n < d THEN (d % 10 = 0 /\ IsPow10Ratio(n, d \div 10))
    ELSE (n % 10 = 0 /\ IsPow10Ratio(n \div 10, d))

\* np.log10(meq) + 1.0 for meq > 0: its floor and whether it is an integer.
Log10Plus1(q) ==
    [fl |-> FloorLog10Ratio(q.num, q.den) + q.e + 1,
     ex |-> IsPow10Ratio(q.num, q.den)]

\* np.abs of such a number.
AbsReal(r) ==
    IF r.fl >= 0 THEN r
    ELSE IF r.ex THEN [fl |-> -r.fl, ex |-> TRUE]
    ELSE [fl |-> -r.fl - 1, ex |-> FALSE]

ZeroDist == [fl |-> 0, ex |-> TRUE]

\* Variant of Dist: a non-positive value is clamped to the floor 1e-6 before
\* the logarithm instead of being pinned to the centre.
Dist_FloorClamp(q) ==
    IF IsPositive(q) THEN AbsReal(Log10Plus1(q)) ELSE [fl |-> 5, ex |-> TRUE]

\* np.where(meq > 0, np.abs(np.log10(meq) + 1.0), 0.0)  (lines 79-80)
Dist(q) == IF IsPositive(q) THEN AbsReal(Log10Plus1(q)) ELSE ZeroDist

\* Variant of Ceil: truncation.
Ceil_Floor(d) == d.fl

\* np.ceil of a non-negative real.
Ceil(d) == IF d.ex THEN d.fl ELSE d.fl + 1

\* d1 <= d2 as far as the integer part and exactness decide it; two
\* non-integers with the same integer part have the same ceiling.
DistLeq(d1, d2) == d1.fl < d2.fl \/ (d1.fl = d2.fl /\ (d1.ex \/ ~d2.ex))

(***************************************************************************)
(* Strings: the str methods the code uses, on the strings of the model     *)
(***************************************************************************)
NA == "<NA>"    \* a missing cell (None / NaN in an object column)

\* str.strip
StrStrip(s) ==
    CASE s = " Anion " -> "Anion"
      [] OTHER -> s

\* str.lower
StrLower(s) ==
    CASE s = "Ion"   -> "ion"
      [] s = "ION"   -> "ion"
      [] s = "Group" -> "group"
      [] s = "GROUP" -> "group"
      [] s = "Conc"  -> "conc"
      [] s = "CONC"  -> "conc"
      [] s = "meqL"  -> "meql"
      [] s = "Anion" -> "anion"
      [] s = " Anion " -> " anion "
      [] OTHER -> s

\* str.title
StrTitle(s) ==
    CASE s = "group" -> "Group"
      [] s = "GROUP" -> "Group"
      [] OTHER -> s

(***************************************************************************)
(* normalize (lines 27-56)                                                 *)
(***************************************************************************)
Raise(e) == [ok |-> FALSE, err |-> e, rows |-> <<>>]
Return(rows) == [ok |-> TRUE, err |-> "", rows |-> rows]

\* line 30: df.columns = [c.strip().title() if c.lower()=="group" else c ...]
RenameColumns(cs) ==
    {IF StrLower(c) = "group" THEN StrTitle(StrStrip(c)) ELSE c : c \in cs}

\* line 33: the keys of lower = {c.lower(): c for c in df.columns}
LowerKeys(cs) == {StrLower(c) : c \in cs}

\* pd.to_numeric(df["meqL"], errors="coerce") (line 51) of a numeric cell.
ToNumeric(conc) ==
    IF conc.k = "nan" THEN MeqNaN
    ELSE [k |-> "num", s |-> conc.s, num |-> conc.m, den |-> 1, e |-> conc.e]

\* Variant of IsSupported: no row is filtered out.
IsSupported_All(r) == TRUE

\* line 54: df[df["Ion"].isin(MW.keys())]
IsSupported(r) == r.Ion \in DOMAIN MW

\* line 55: df["Group"].str.strip().str.lower(); a missing cell stays missing.
NormGroup(g) == IF g = NA THEN NA ELSE StrLower(StrStrip(g))

\* lines 53-56 applied to the rows carrying their meqL cell.
FilterAndClean(rows) ==
    LET kept == SelectSeq(rows, IsSupported)
    IN  [i \in 1..Len(kept) |->
            [Ion |-> kept[i].Ion, Group |-> NormGroup(kept[i].Group),
             meqL |-> kept[i].meqL]]

\* lines 44-46: the meqL column computed row by row.
WithMeq(rows) ==
    [i \in 1..Len(rows) |->
        [Ion |-> rows[i].Ion, Group |-> rows[i].Group,
         meqL |-> ConcTimesFactor(rows[i].Conc, rows[i].Ion)]]

\* lines 50-51: the meqL column taken from the table and made numeric.
WithNumeric(rows) ==
    [i \in 1..Len(rows) |->
        [Ion |-> rows[i].Ion, Group |-> rows[i].Group,
         meqL |-> ToNumeric(rows[i].Conc)]]

\* normalize(df_edit, unit).  cs are the column names, rows the cells (the
\* concentration cells are the data of whichever concentration column the
\* table has).  On an empty frame DataFrame.apply(..., axis=1) gives an empty
\* Series or, depending on the pandas version, a copy of the frame, whose
\* assignment to the single column meqL raises ValueError: emptyApplyFrame
\* selects between the two.
normalize(cs, rows, u, emptyApplyFrame) ==
    LET columns == RenameColumns(cs)
        lower   == LowerKeys(columns)
    IN  IF "ion" \notin lower THEN Raise("ValueError")
        ELSE IF "group" \notin lower THEN Raise("ValueError")
        ELSE IF u = "mg/L" THEN
            IF "conc" \notin lower THEN Raise("ValueError")
            ELSE IF "Conc" \notin columns THEN Raise("KeyError")
            ELSE IF Len(rows) > 0 /\ "Ion" \notin columns THEN Raise("KeyError")
            ELSE IF Len(rows) = 0 /\ (emptyApplyFrame \/ "Ion" \notin columns)
                 THEN Raise("ValueError")
            ELSE IF "Group" \notin columns THEN Raise("KeyError")
            ELSE Return(FilterAndClean(WithMeq(rows)))
        ELSE
            IF "meqL" \notin lower THEN Raise("ValueError")
            ELSE IF "Ion" \notin columns \/ "Group" \notin columns
                 THEN Raise("KeyError")
            ELSE Return(FilterAndClean(WithNumeric(rows)))

(***************************************************************************)
(* stiff_plot (lines 62-141)                                               *)
(***************************************************************************)
SeqToSet(q) == {q[i] : i \in 1..Len(q)}

RECURSIVE SortFrom(_, _, _)
SortFrom(rows, order, i) ==
    IF i > Len(order) THEN <<>>
    ELSE SelectSeq(rows, LAMBDA r : r.Ion = order[i]) \o SortFrom(rows, order, i + 1)

\* Variant of SortByOrder: the rows stay in input order.
SortByOrder_Unsorted(rows, order) == rows

\* lines 66-68: pd.Categorical(..., categories=order, ordered=True) and
\* sort_values("Ion"): rows in the order of their rank, ties in input order.
SortByOrder(rows, order) == SortFrom(rows, order, 1)

\* lines 64-65: the rows of one side.
SideRows(df, group, order) ==
    SelectSeq(df, LAMBDA r : r.Group = group /\ r.Ion \in SeqToSet(order))

\* lines 73-74: y from the fixed table of the side.
YOf(ytable, ion) == ytable[ion]

\* lines 81-82: x_cat = -dist_cat, x_ani = dist_ani.
Signed(sg, d) == [sg |-> sg, fl |-> d.fl, ex |-> d.ex]

\* Variant of Scatter: y counts the points present from the top slot down.
Scatter_CompactY(name, rows, sg, ytable) ==
    [name |-> name,
     x |-> [i \in 1..Len(rows) |-> Signed(sg, Dist(rows[i].meqL))],
     y |-> [i \in 1..Len(rows) |-> 9 - i],
     customdata |-> [i \in 1..Len(rows) |->
                        [ion |-> rows[i].Ion, meq |-> rows[i].meqL]]]

\* go.Scatter(x=..., y=..., customdata=list(zip(Ion, meq)))  (lines 96-108)
Scatter(name, rows, sg, ytable) ==
    [name |-> name,
     x |-> [i \in 1..Len(rows) |-> Signed(sg, Dist(rows[i].meqL))],
     y |-> [i \in 1..Len(rows) |-> YOf(ytable, rows[i].Ion)],
     customdata |-> [i \in 1..Len(rows) |->
                        [ion |-> rows[i].Ion, meq |-> rows[i].meqL]]]

\* the largest of a non-empty set of distances (np.nanmax, line 87)
MaxDist(ds) == CHOOSE d \in ds : \A o \in ds : DistLeq(o, d)

\* lines 85-87: meq_pos = meq_all[meq_all > 0];
\* max_dec = int(ceil(nanmax(|log10(meq_pos)+1|))) if not meq_pos.empty else 1
MaxDec(cat, ani) ==
    LET meq_all == [i \in 1..Len(cat) |-> cat[i].meqL]
                   \o [i \in 1..Len(ani) |-> ani[i].meqL]
        meq_pos == SelectSeq(meq_all, IsPositive)
    IN  IF Len(meq_pos) > 0
        THEN Ceil(MaxDist({AbsReal(Log10Plus1(meq_pos[i])) : i \in 1..Len(meq_pos)}))
        ELSE 1

\* line 89: list(range(-max_dec, max_dec + 1))
TickVals(max_dec) == [i \in 1..(2 * max_dec + 1) |-> i - max_dec - 1]

Digit(n) == <<"0", "1", "2", "3", "4", "5", "6", "7", "8", "9">>[n + 1]

RECURSIVE Zeros(_)
Zeros(n) == IF n = 0 THEN "" ELSE "0" \o Zeros(n - 1)

\* f"{10**n:g}" for a natural n: six significant digits, then exponent form.
FormatPow10(n) ==
    IF n < 6 THEN "1" \o Zeros(n)
    ELSE "1e+" \o Digit(n \div 10) \o Digit(n % 10)

\* Variant of TickLabel: the offset of the forward transform is dropped.
TickLabel_NoOffset(v) ==
    IF v = 0 THEN "0"
    ELSE FormatPow10(IF v < 0 THEN -v ELSE v)

\* line 91: "0" if v == 0 else f"{10**(abs(v)-1):g}"
TickLabel(v) ==
    IF v = 0 THEN "0"
    ELSE FormatPow10((IF v < 0 THEN -v ELSE v) - 1)

TickText(tickvals) == [i \in 1..Len(tickvals) |-> TickLabel(tickvals[i])]

\* stiff_plot(df, title): the two traces, the centre line and the x axis.
stiff_plot(df) ==
    LET cat == SortByOrder(SideRows(df, "cation", CAT_ORDER), CAT_ORDER)
        ani == SortByOrder(SideRows(df, "anion", ANI_ORDER), ANI_ORDER)
        max_dec == MaxDec(cat, ani)
        tickvals == TickVals(max_dec)
    IN  [data |-> <<Scatter("Cationes", cat, -1, y_left),
                    Scatter("Aniones", ani, 1, y_right)>>,
         vline |-> 0,
         tickvals |-> tickvals,
         ticktext |-> TickText(tickvals),
         range |-> <<-max_dec, max_dec>>]

(***************************************************************************)
(* The page (lines 151-173)                                                *)
(***************************************************************************)
Units == {"mg/L", "meq/L"}          \* line 152

Row(ion, group, conc) == [Ion |-> ion, Group |-> group, Conc |-> conc]

\* lines 154-158
df_default ==
    <<Row("Na",   "cation", Num(1, 27713, 0)),
      Row("Ca",   "cation", Num(1, 2600, 0)),
      Row("Mg",   "cation", Num(1, 510, 0)),
      Row("Fe",   "cation", Num(1, 2, 0)),
      Row("Cl",   "anion",  Num(1, 48521, 0)),
      Row("HCO3", "anion",  Num(1, 854, 0)),
      Row("SO4",  "anion",  Num(1, 60, 0)),
      Row("CO3",  "anion",  Num(0, 0, 0))>>

UIColumns == {"Ion", "Group", "Conc"}

\* A row appended by the data editor (num_rows="dynamic"): every cell empty.
BlankRow == Row(NA, NA, NaN)

\* What the model types into the cells of an added row.  Conc is a
\* NumberColumn with min_value=0.0 and step=0.01 (lines 160-161), Group a
\* SelectboxColumn with the options cation and anion (lines 162-163).
EditIons   == {"Na", "K"}
EditGroups == {"cation", "anion"}
EditConcs  == {Num(1, 1, -2), Num(1, 5, 5)}

\* Variant of RenderOutcome: the exception is swallowed and an empty table
\* is plotted.
RenderOutcome_Swallow(res) ==
    [status |-> "plotted", err |-> "",
     dfN |-> IF res.ok THEN res.rows ELSE <<>>,
     fig |-> <<stiff_plot(IF res.ok THEN res.rows ELSE <<>>)>>]

\* lines 168-173: the button branch.  An exception of normalize leaves the
\* script before st.dataframe and stiff_plot are reached.
RenderOutcome(res) ==
    IF res.ok
    THEN [status |-> "plotted", err |-> "", dfN |-> res.rows,
          fig |-> <<stiff_plot(res.rows)>>]
    ELSE [status |-> "error", err |-> res.err, dfN |-> <<>>, fig |-> <<>>]

\* A rerun of the script without the button: st.info, nothing plotted.
Rerun ==
    /\ status' = "idle"
    /\ err' = ""
    /\ dfN' = <<>>
    /\ fig' = <<>>

Init ==
    /\ unit = "mg/L"
    /\ cols = UIColumns
    /\ df_edit = df_default
    /\ nNew = 0
    /\ status = "idle"
    /\ err = ""
    /\ dfN = <<>>
    /\ fig = <<>>

SetUnit ==
    \E u \in Units :
        /\ u # unit
        /\ unit' = u
        /\ Rerun
        /\ UNCHANGED <<cols, df_edit, nNew>>

IsNew(i) == i > Len(df_edit) - nNew

DeleteRow ==
    \E i \in 1..Len(df_edit) :
        /\ df_edit' = [j \in 1..(Len(df_edit) - 1) |->
                          IF j < i THEN df_edit[j] ELSE df_edit[j + 1]]
        /\ nNew' = IF IsNew(i) THEN nNew - 1 ELSE nNew
        /\ Rerun
        /\ UNCHANGED <<unit, cols>>

AddRow ==
    /\ Len(df_edit) < MaxRows
    /\ df_edit' = Append(df_edit, BlankRow)
    /\ nNew' = nNew + 1
    /\ Rerun
    /\ UNCHANGED <<unit, cols>>

EditIon ==
    \E i \in 1..Len(df_edit), s \in EditIons :
        /\ IsNew(i)
        /\ df_edit[i].Ion # s
        /\ df_edit' = [df_edit EXCEPT ![i].Ion = s]
        /\ Rerun
        /\ UNCHANGED <<unit, cols, nNew>>

EditGroup ==
    \E i \in 1..Len(df_edit), g \in EditGroups :
        /\ IsNew(i)
        /\ df_edit[i].Group # g
        /\ df_edit' = [df_edit EXCEPT ![i].Group = g]
        /\ Rerun
        /\ UNCHANGED <<unit, cols, nNew>>

EditConc ==
    \E i \in 1..Len(df_edit), c \in EditConcs :
        /\ IsNew(i)
        /\ df_edit[i].Conc # c
        /\ df_edit' = [df_edit EXCEPT ![i].Conc = c]
        /\ Rerun
        /\ UNCHANGED <<unit, cols, nNew>>

\* st.button("Graficar Mariposa") pressed.
Render ==
    \E emptyApplyFrame \in BOOLEAN :
        LET out == RenderOutcome(normalize(cols, df_edit, unit, emptyApplyFrame))
        IN  /\ status' = out.status
            /\ err' = out.err
            /\ dfN' = out.dfN
            /\ fig' = out.fig
            /\ UNCHANGED <<unit, cols, df_edit, nNew>>

Next ==
    \/ SetUnit
    \/ DeleteRow
    \/ AddRow
    \/ EditIon
    \/ EditGroup
    \/ EditConc
    \/ Render

Spec == Init /\ [][Next]_vars

(***************************************************************************)
(* normalize and stiff_plot called on tables the editor does not produce:  *)
(* other column names, negative cells, unnormalised group strings.         *)
(***************************************************************************)
ColumnSets ==
    {a \cup b \cup c \cup d :
        a \in {{}, {"Ion"}, {"ion"}, {"ION"}},
        b \in {{}, {"Group"}, {"group"}, {"GROUP"}},
        c \in {{}, {"Conc"}, {"conc"}, {"CONC"}},
        d \in {{}, {"meqL"}}}

ArgIons   == {"Na", "Cl", "K"}
ArgGroups == {"cation", " Anion "}
ArgConcs  == {NaN, Num(-1, 5, 0), Num(0, 0, 0), Num(1, 1, -2), Num(1, 5, 2)}

ArgRows == {Row(i, g, c) : i \in ArgIons, g \in ArgGroups, c \in ArgConcs}

ArgTables == UNION {[1..n -> ArgRows] : n \in 0..MaxRows}

InitArgs ==
    /\ unit = "mg/L"
    /\ \/ cols \in ColumnSets /\ df_edit = df_default
       \/ cols = UIColumns /\ df_edit \in ArgTables
    /\ nNew = 0
    /\ status = "idle"
    /\ err = ""
    /\ dfN = <<>>
    /\ fig = <<>>

NextArgs ==
    \/ SetUnit
    \/ Render

SpecArgs == InitArgs /\ [][NextArgs]_vars

(***************************************************************************)
(* Properties                                                              *)
(***************************************************************************)
SupportedIons == {"Na", "Ca", "Mg", "Fe", "Cl", "HCO3", "SO4", "CO3"}

Plotted == status = "plotted"
Traces == fig[1].data

\* the (trace, vertex) pairs of the figure
Vertices ==
    UNION {{<<t, i>> : i \in 1..Len(Traces[t].x)} : t \in 1..Len(Traces)}

NonNegative(q) == q.k = "num" /\ q.s >= 0

\* C1: with the columns the page supplies and the unit selector on meq/L, a
\* render succeeds: every supported-ion row of normalize's output carries the
\* input value as its equivalent concentration, and the plot is produced.
C1_MeqRenderSucceeds ==
    (status # "idle" /\ unit = "meq/L" /\ cols = UIColumns) =>
        /\ status = "plotted"
        /\ LET kept == SelectSeq(df_edit, LAMBDA r : r.Ion \in SupportedIons)
           IN  /\ Len(dfN) = Len(kept)
               /\ \A i \in 1..Len(kept) :
                     dfN[i].meqL = [k |-> kept[i].Conc.k, s |-> kept[i].Conc.s,
                                    num |-> kept[i].Conc.m, den |-> 1,
                                    e |-> kept[i].Conc.e]
        /\ Len(fig) = 1

\* C2: every concentration in normalize's output is a non-negative number: a
\* negative input is clamped to 0 and a missing one becomes 0.
C2_OutputNonNegative ==
    Plotted => \A i \in 1..Len(dfN) : NonNegative(dfN[i].meqL)

\* value / 10^floor(log10(value)) of n/d to eight decimals, n/d in [1, 10)
RECURSIVE LongDiv(_, _, _, _)
LongDiv(rem, d, k, acc) ==
    IF k = 0 THEN acc
    ELSE LongDiv((rem * 10) % d, d, k - 1, acc * 10 + (rem * 10) \div d)

RECURSIVE Mantissa8(_, _)
Mantissa8(n, d) ==
    IF n < d THEN Mantissa8(n * 10, d)
    ELSE IF n \div 10 >= d THEN Mantissa8(n, d * 10)
    ELSE LongDiv(n % d, d, 8, n \div d)

\* the fractional part of log10(n/d) exceeds 1/2: the mantissa exceeds
\* sqrt(10) = 3.16227766016...
FracAboveHalf(q) == Mantissa8(q.num, q.den) >= 316227767

\* |log10(q) + 1| rounded to the nearest integer, q > 0
RoundedDecade(q) ==
    LET r == Log10Plus1(q)
    IN  IF r.ex THEN (IF r.fl < 0 THEN -r.fl ELSE r.fl)
        ELSE IF r.fl >= 0 THEN r.fl + (IF FracAboveHalf(q) THEN 1 ELSE 0)
        ELSE (-r.fl - 1) + (IF FracAboveHalf(q) THEN 0 ELSE 1)

\* the exponent n of a tick label that reads 10^n
LabelExponent(label) ==
    CHOOSE n \in 0..20 :
        label = (IF n < 6 THEN "1" \o Zeros(n)
                 ELSE "1e+" \o Digit(n \div 10) \o Digit(n % 10))

\* the decade read at tick k on the side sg: the tick's label 10^(|k|-1),
\* the centre tick standing for the reference 10^(-1)
DecadeReadAt(sg, k) ==
    IF k = 0 THEN -1
    ELSE LET j == CHOOSE j \in 1..Len(fig[1].tickvals) :
                      fig[1].tickvals[j] = sg * k
         IN  LabelExponent(fig[1].ticktext[j])

\* |n - log10(q)| <= 1
WithinOneDecade(n, q) ==
    LET r == Log10Plus1(q)
        lf == r.fl - 1
    IN  lf >= n - 1 /\ (lf < n + 1 \/ (lf = n + 1 /\ r.ex))

\* C3: for every plotted point with positive concentration v, the label of
\* the tick at |x| rounded to the nearest decade is within one decade of v.
C3_TickPointConsistency ==
    Plotted =>
        \A v \in Vertices :
            LET t == Traces[v[1]]
                q == t.customdata[v[2]].meq
            IN  IsPositive(q) =>
                    WithinOneDecade(
                        DecadeReadAt(t.x[v[2]].sg, RoundedDecade(q)), q)

RankOf(order, ion) == CHOOSE i \in 1..Len(order) : order[i] = ion
IonsOf(t) == [i \in 1..Len(t.customdata) |-> t.customdata[i].ion]
IsZeroX(x) == x.fl = 0 /\ x.ex

\* the vertices of trace t are the points of one side of dfN in rank order,
\* one hover entry per vertex and no vertex that is not a point
SideTrace(t, group, order) ==
    /\ Len(t.x) = Len(t.customdata)
    /\ Len(t.y) = Len(t.customdata)
    /\ \A i \in 1..Len(t.customdata) : t.customdata[i].ion \in SeqToSet(order)
    /\ \A i, j \in 1..Len(t.customdata) :
          i < j => RankOf(order, t.customdata[i].ion)
                       <= RankOf(order, t.customdata[j].ion)
    /\ \A ion \in SeqToSet(order) :
          LET shown == SelectSeq(t.customdata, LAMBDA c : c.ion = ion)
              given == SelectSeq(dfN, LAMBDA r : r.Ion = ion /\ r.Group = group)
          IN  /\ Len(shown) = Len(given)
              /\ \A i \in 1..Len(given) : shown[i].meq = given[i].meqL

TickAt(j) == [value |-> fig[1].tickvals[j], label |-> fig[1].ticktext[j]]
TickIndices == 1..Len(fig[1].tickvals)
Abs(k) == IF k < 0 THEN -k ELSE k

\* C5 (as stated): tick 0 is labelled with the reference concentration 0.1
\* and every tick k # 0 with 10^(|k|-1).
C5_TickZeroIsReference ==
    Plotted =>
        \A j \in TickIndices :
            IF TickAt(j).value = 0
            THEN TickAt(j).label = "0.1"
            ELSE LabelExponent(TickAt(j).label) = Abs(TickAt(j).value) - 1

\* C5 (amended): tick 0 is labelled "0" and every tick k # 0 is labelled
\* 10^(|k|-1), the offset 1 being the one used for point placement.
C5_TickLabels ==
    Plotted =>
        \A j \in TickIndices :
            IF TickAt(j).value = 0
            THEN TickAt(j).label = "0"
            ELSE /\ \E n \in 0..20 :
                       TickAt(j).label =
                           (IF n < 6 THEN "1" \o Zeros(n)
                            ELSE "1e+" \o Digit(n \div 10) \o Digit(n % 10))
                 /\ LabelExponent(TickAt(j).label) = Abs(TickAt(j).value) - 1

\* a render with ticks out to three decades on both sides
C5_Witness ==
    /\ Plotted
    /\ \E j \in TickIndices : TickAt(j).value = 0
    /\ \E j \in TickIndices : TickAt(j).value = -3 /\ TickAt(j).label = "100"
    /\ \E j \in TickIndices : TickAt(j).value = 3

\* C6: normalize's output is exactly the input rows whose ion is one of the
\* eight reference ions; a row with any other ion gives no plotted point,
\* leaves the axis as it is without that row, and raises no error.
C6_UnsupportedExcluded ==
    LET kept == SelectSeq(df_edit, LAMBDA r : r.Ion \in SupportedIons)
    IN  /\ Plotted =>
            /\ Len(dfN) = Len(kept)
            /\ \A i \in 1..Len(kept) : dfN[i].Ion = kept[i].Ion
            /\ \A v \in Vertices :
                  Traces[v[1]].customdata[v[2]].ion \in SupportedIons
            /\ LET without == stiff_plot(normalize(cols, kept, unit, FALSE).rows)
               IN  /\ fig[1].range = without.range
                   /\ fig[1].tickvals = without.tickvals
                   /\ fig[1].ticktext = without.ticktext
                   /\ fig[1].data = without.data
        /\ (status = "error" /\ Len(kept) < Len(df_edit)) =>
              \A b \in BOOLEAN : ~normalize(cols, kept, unit, b).ok

\* a render of a table holding a K row whose concentration exceeds all others
C6_Witness ==
    /\ Plotted
    /\ Len(df_edit) = 2
    /\ df_edit[1].Ion = "Fe"
    /\ df_edit[2] = Row("K", "cation", Num(1, 5, 5))
    /\ fig[1].range = <<-1, 1>>

\* C7: the y of a plotted point depends on its ion alone: Na 8, Ca 7, Mg 6,
\* Fe 5 on the cation side, Cl 8, HCO3 7, SO4 6, CO3 5 on the anion side; an
\* ion absent from the table has no point.
C7_FixedSlots ==
    Plotted =>
        \A v \in Vertices :
            LET t == Traces[v[1]]
                ion == t.customdata[v[2]].ion
            IN  /\ t.y[v[2]] =
                      (CASE ion \in {"Na", "Cl"}   -> 8
                         [] ion \in {"Ca", "HCO3"} -> 7
                         [] ion \in {"Mg", "SO4"}  -> 6
                         [] ion \in {"Fe", "CO3"}  -> 5
                         [] OTHER -> 0)
                /\ \E i \in 1..Len(df_edit) : df_edit[i].Ion = ion

\* a render in which Ca is absent and Mg arrives before Na
C7_Witness ==
    /\ Plotted
    /\ Len(df_edit) = 2
    /\ df_edit[1].Ion = "Mg" /\ df_edit[2].Ion = "Na"
    /\ Traces[1].y = <<8, 6>>

NotPositive(q) == q.k = "nan" \/ q.s <= 0 \/ q.num = 0
PositiveVertices ==
    {v \in Vertices : ~NotPositive(Traces[v[1]].customdata[v[2]].meq)}
XOf(v) == Traces[v[1]].x[v[2]]

\* C8: a record whose equivalent concentration is 0, negative or NaN is
\* plotted exactly at x = 0 and the render does not raise; with no positive
\* record at all (or no record) the ticks span one decade.
C8_ZeroHandling ==
    /\ Plotted =>
          /\ \A v \in Vertices \ PositiveVertices : IsZeroX(XOf(v))
          /\ PositiveVertices = {} =>
                /\ fig[1].range = <<-1, 1>>
                /\ fig[1].tickvals = <<-1, 0, 1>>
    /\ (status # "idle" /\ unit = "mg/L" /\ cols = UIColumns /\ Len(df_edit) > 0)
          => Plotted

\* a render of a negative and a missing concentration, nothing positive
C8_Witness ==
    /\ Plotted
    /\ Len(Traces[1].x) = 2
    /\ Traces[1].customdata[1].meq.s = -1
    /\ Traces[1].customdata[2].meq.k = "nan"
    /\ fig[1].tickvals = <<-1, 0, 1>>

HasColumn(name) == \E c \in cols : StrLower(c) = name

\* the table has no Ion, no Group or no concentration column for the unit,
\* whatever the case of the names (for meq/L: no Conc or no meqL)
LacksRequiredColumn ==
    \/ ~HasColumn("ion")
    \/ ~HasColumn("group")
    \/ unit = "mg/L" /\ ~HasColumn("conc")
    \/ unit = "meq/L" /\ (~HasColumn("conc") \/ "meqL" \notin cols)

\* C9: a render of a table that lacks a required column ends in normalize's
\* exception: stiff_plot is not invoked and nothing is plotted.
C9_SchemaError ==
    (status # "idle" /\ LacksRequiredColumn) =>
        /\ status = "error"
        /\ err \in {"ValueError", "KeyError"}
        /\ Len(dfN) = 0
        /\ Len(fig) = 0

\* a failed render of a table with upper-case Ion and Group and no Conc
C9_Witness ==
    /\ status = "error"
    /\ unit = "mg/L"
    /\ cols = {"ION", "GROUP"}

LeqInt(x, m) == x.fl < m \/ (x.fl = m /\ x.ex)

\* C10: cation points have x <= 0 and anion points x >= 0, every point has
\* |x| <= max_dec, the ticks are the integers -max_dec..max_dec and the axis
\* range is [-max_dec, max_dec], max_dec being the ceiling of the largest
\* distance of a plotted positive record (1 if there is none).
C10_AxisCoverage ==
    Plotted =>
        LET max_dec == fig[1].range[2]
        IN  /\ max_dec >= 0
            /\ fig[1].range = <<-max_dec, max_dec>>
            /\ Len(fig[1].tickvals) = 2 * max_dec + 1
            /\ \A j \in TickIndices : fig[1].tickvals[j] = j - max_dec - 1
            /\ \A v \in Vertices :
                  /\ v[1] = 1 => (XOf(v).sg = -1 \/ IsZeroX(XOf(v)))
                  /\ v[1] = 2 => (XOf(v).sg = 1 \/ IsZeroX(XOf(v)))
                  /\ LeqInt(XOf(v), max_dec)
            /\ IF PositiveVertices = {} THEN max_dec = 1
               ELSE \E v \in PositiveVertices : ~LeqInt(XOf(v), max_dec - 1)

\* the render of the default table: four points a side, five decades
C10_Witness ==
    /\ Plotted
    /\ Len(Traces[1].x) = 4
    /\ Len(Traces[2].x) = 4
    /\ fig[1].range = <<-5, 5>>
    /\ \E v \in Vertices : XOf(v).fl = 4 /\ XOf(v).sg = 1

====
